---- MODULE Spec2Model ----
(***************************************************************************)
(* State-machine model of the LinkedIn profile scraper: the login cascade, *)
(* the locator-strategy chains, the scrape pass of the three scraper       *)
(* variants (async Playwright, sync Playwright, Selenium) and the skills   *)
(* extractor.  The browser is the environment: every lookup the code       *)
(* issues answers with one of "raise" (the call throws), "none" (nothing   *)
(* matched / no text) or "text" (an element with that text content).       *)
(***************************************************************************)
EXTENDS Integers, Sequences, FiniteSets, TLC

VARIABLES
    variant,        \* which scraper class is running: "async", "sync", "selenium"
    headless,       \* self.headless
    \* ---- login ----
    lpage,          \* page state after credential submission
    lpc,            \* position inside login()
    lidx,           \* loop index inside the current selector loop of login()
    loginResult,    \* outcome of login(): "none" while running
    checks,         \* sequence of the checks login() has evaluated so far
    \* ---- one locator-strategy chain ----
    ckind,          \* which chain implementation is running
    cresps,         \* the browser's answer to each strategy of the chain
    cidx,           \* next strategy to try
    cvalue,         \* value of the field so far
    cpc,            \* position inside the chain: "chain", "fallback", "direct", "done"
    lookups,        \* sequence of strategy indices a lookup was issued for
    \* ---- the scrape pass ----
    page,           \* the browser's answers on the profile page, per field
    faults,         \* the calls outside the field extractors that throw
    expanded,       \* browser state: the skills section has been expanded
    pc,             \* position inside scrape_profile()
    profile_data,   \* the dict under construction, then the dict returned
    experiences,    \* local variable "experiences" of the Selenium scrape_profile
    result,         \* "none" while running, then "record", "error_dict" or "raised"
    steps,          \* the steps of the pass that have run, in order
    skillRuns,      \* the skills of each run of the skills extractor
    \* ---- the scraper object (session) ----
    sess,           \* self.playwright / self.browser / self.driver and the browser process
    closeLog,       \* one entry per close() call: the teardown calls it made, whether it raised
    \* ---- one HTTP request ----
    rq,             \* the request body and the credentials of the environment
    rpc,            \* position inside the endpoint handler
    profile_id,     \* local variable profile_id of POST /scrape
    profile_cache,  \* module-level dict profile_cache, as the set of its keys
    calls,          \* scraper methods the handler has invoked, in order
    loginState,     \* what scraper.login returned to the handler
    passResult,     \* what scraper.scrape_profile returned to the handler
    bgTasks,        \* tasks added to BackgroundTasks
    response,       \* the HTTP response, NoResponse while the handler runs
    out,            \* log lines and printed lines emitted so far
    cacheOps,       \* calls of the clear-cache endpoints served so far
    \* ---- rate_limit_check ----
    rate_cache,     \* the dict passed as cache: key -> time of the last admitted call
    clock,          \* time.time()
    rateLog         \* one entry per call: key, time, value returned

loginVars == <<lpage, lpc, lidx, loginResult, checks>>
chainVars == <<ckind, cresps, cidx, cvalue, cpc, lookups>>
scrapeVars == <<page, faults, expanded, pc, profile_data, experiences, result, steps, skillRuns>>
sessionVars == <<sess, closeLog>>
requestVars == <<sessionVars, rq, rpc, profile_id, profile_cache, calls, loginState,
                 passResult, bgTasks, response, out, cacheOps>>
rateVars == <<rate_cache, clock, rateLog>>
vars == <<variant, headless, loginVars, chainVars, scrapeVars, requestVars, rateVars>>

Variants == {"async", "sync", "selenium"}

(***************************************************************************)
(* Text.  A text is a sequence of tokens; the token " " is whitespace.     *)
(***************************************************************************)
WS == " "

RECURSIVE LStrip(_)
LStrip(t) == IF t # <<>> /\ Head(t) = WS THEN LStrip(Tail(t)) ELSE t

RECURSIVE RStrip(_)
RStrip(t) == IF t # <<>> /\ t[Len(t)] = WS THEN RStrip(SubSeq(t, 1, Len(t) - 1)) ELSE t

\* str.strip()
Strip(t) == RStrip(LStrip(t))

\* Python truthiness of a str
Truthy(t) == t # <<>>

EmptyText == <<>>

\* answers of the browser to one lookup
Raise == [kind |-> "raise", text |-> <<>>]
NoMatch == [kind |-> "none", text |-> <<>>]
Found(t) == [kind |-> "text", text |-> t]

(***************************************************************************)
(* Locator-strategy chains                                                 *)
(***************************************************************************)
\* number of strategies of a chain
ChainLen == 3

\* texts an element can carry
Texts == {<<>>, <<WS>>, <<"Ann">>, <<WS, "Bob", WS>>}
Responses == {Raise, NoMatch} \cup {Found(t) : t \in Texts}

\* answer of find_elements(By.TAG_NAME, "h1"): the call throws, or the texts
\* of the h1 elements in DOM order
NoH1 == [kind |-> "list", texts |-> <<>>]
H1Answers == {[kind |-> "raise", texts |-> <<>>], NoH1,
              [kind |-> "list", texts |-> <<<<>>>>],
              [kind |-> "list", texts |-> <<<<WS>>, <<"Dee">>>>]}

ChainKinds == {"sel_text", "sel_name", "async"}

\* get_text_safely: text of the first match, stripped; "" when nothing
\* matches or the lookup throws
get_text_safely(r) == IF r.kind = "text" THEN Strip(r.text) ELSE EmptyText

Stop(v) == [stop |-> TRUE, value |-> v]
Continue == [stop |-> FALSE, value |-> EmptyText]

\* the loop body without its "return headline": the loop runs on
SelTextStepNoReturn(r) == [stop |-> FALSE, value |-> get_text_safely(r)]

\* body of "for selector in headline_selectors" / location_selectors
SelTextStep(r) ==
    IF Truthy(get_text_safely(r)) THEN Stop(get_text_safely(r)) ELSE Continue

\* body of "for selector in name_selectors" of extract_name: the first
\* selector that matches any element returns, whatever its text
SelNameStep(r) ==
    IF r.kind = "text" THEN Stop(Strip(r.text)) ELSE Continue

\* body of "for selector in name_selectors" of the async variant: the raw
\* text_content() is tested, the stripped text is stored
AsyncStep(r) ==
    IF r.kind = "text" /\ Truthy(r.text) THEN Stop(Strip(r.text)) ELSE Continue

ChainStep(kind, r) ==
    CASE kind = "sel_text" -> SelTextStep(r)
      [] kind = "sel_name" -> SelNameStep(r)
      [] OTHER -> AsyncStep(r)

\* the last-resort block of extract_name: first h1 inside <main>
NameFallback(r) == IF r.kind = "text" THEN Strip(r.text) ELSE EmptyText

\* "Direct method 1" of scrape_profile: first h1 with non-empty stripped text
RECURSIVE FirstNonEmpty(_)
FirstNonEmpty(ts) ==
    IF ts = <<>> THEN EmptyText
    ELSE IF Truthy(Strip(Head(ts))) THEN Strip(Head(ts))
    ELSE FirstNonEmpty(Tail(ts))

DirectH1(h) == IF h.kind = "list" THEN FirstNonEmpty(h.texts) ELSE EmptyText

\* where the chain goes once the name selectors are over with value v
AfterNameSelectors(v) == IF Truthy(v) THEN "done" ELSE "direct"

\* one iteration of a selector loop
ChainLookup ==
    /\ cpc = "chain"
    /\ cidx <= Len(cresps.strats)
    /\ lookups' = Append(lookups, cidx)
    /\ LET o == ChainStep(ckind, cresps.strats[cidx]) IN
         IF o.stop
           THEN /\ cvalue' = o.value
                /\ cidx' = cidx
                /\ cpc' = IF ckind = "sel_name" THEN AfterNameSelectors(o.value) ELSE "done"
           ELSE /\ cvalue' = cvalue
                /\ IF cidx < Len(cresps.strats)
                     THEN cidx' = cidx + 1 /\ cpc' = cpc
                     ELSE /\ cidx' = cidx
                          /\ cpc' = IF ckind = "sel_name" THEN "fallback" ELSE "done"
    /\ UNCHANGED <<variant, headless, requestVars, rateVars, loginVars, ckind, cresps, scrapeVars>>

\* extract_name after every selector failed: main -> h1[0]
ChainFallback ==
    /\ cpc = "fallback"
    /\ ckind = "sel_name"
    /\ lookups' = Append(lookups, Len(cresps.strats) + 1)
    /\ cvalue' = NameFallback(cresps.fallback)
    /\ cpc' = AfterNameSelectors(NameFallback(cresps.fallback))
    /\ UNCHANGED <<variant, headless, requestVars, rateVars, loginVars, ckind, cresps, cidx, scrapeVars>>

\* scrape_profile when extract_name came back with an empty name
ChainDirect ==
    /\ cpc = "direct"
    /\ ckind = "sel_name"
    /\ lookups' = Append(lookups, Len(cresps.strats) + 2)
    /\ cvalue' = DirectH1(cresps.h1s)
    /\ cpc' = "done"
    /\ UNCHANGED <<variant, headless, requestVars, rateVars, loginVars, ckind, cresps, cidx, scrapeVars>>

ChainNext == ChainLookup \/ ChainFallback \/ ChainDirect

(***************************************************************************)
(* The scrape pass: field extractors                                       *)
(***************************************************************************)
\* "if i >= 5: break" / "items[:5]"
ExperienceCap == 5

\* largest number of list items in the experience section of a page
MaxExpItems == 6

\* dict helpers: a dict is a function from its keys
EmptyDict == [k \in {} |-> EmptyText]
Has(d, k) == k \in DOMAIN d
Put(d, k, v) == [x \in (DOMAIN d) \cup {k} |-> IF x = k THEN v ELSE d[x]]
\* dict.get(k, '')
Get(d, k) == IF Has(d, k) THEN d[k] ELSE EmptyText
\* "if v: d[k] = v"
PutIf(d, k, v) == IF v # <<>> THEN Put(d, k, v) ELSE d

First(rs) == IF rs = <<>> THEN NoMatch ELSE Head(rs)

\* number of characters of a token and of a text
Chars(tok) ==
    CASE tok \in {WS, "-"} -> 1
      [] tok \in {"Hi", "at", "BS"} -> 2
      [] tok \in {"Ann", "Bob", "Dee", "MIT"} -> 3
      [] tok \in {"2018", "2020", "Acme"} -> 4
      [] tok \in {"Engineer", "Jan 2022"} -> 8
      [] tok \in {"Present"} -> 7
      [] tok \in {"Massachusetts Institute"} -> 23
      [] tok \in {"Builds things"} -> 13
      [] OTHER -> 6

RECURSIVE CharLen(_)
CharLen(t) == IF t = <<>> THEN 0 ELSE Chars(Head(t)) + CharLen(Tail(t))

\* a selector loop run to its end: found tells whether an iteration stopped it
RECURSIVE RunChain(_, _)
RunChain(kind, rs) ==
    IF rs = <<>> THEN [found |-> FALSE, value |-> EmptyText]
    ELSE IF ChainStep(kind, Head(rs)).stop
         THEN [found |-> TRUE, value |-> ChainStep(kind, Head(rs)).value]
         ELSE RunChain(kind, Tail(rs))

\* ---- name ----
\* extract_name: the selector loop, then the <main> h1 fallback
extract_name(n) ==
    IF RunChain("sel_name", n.strats).found
      THEN RunChain("sel_name", n.strats).value
      ELSE NameFallback(n.fallback)

\* scrape_profile lines 824-851: extract_name, else the direct h1 scan
SelNameField(pd, n) ==
    IF Truthy(extract_name(n)) THEN Put(pd, "name", extract_name(n))
    ELSE PutIf(pd, "name", DirectH1(n.h1s))

\* async: a loop iteration that stops stores the stripped text
AsyncChainField(pd, key, rs) ==
    IF RunChain("async", rs).found THEN Put(pd, key, RunChain("async", rs).value) ELSE pd

\* sync: one query_selector; the key is set whenever an element is found
SyncField(pd, key, rs) ==
    IF First(rs).kind = "text" THEN Put(pd, key, Strip(First(rs).text)) ELSE pd

\* ---- headline, location ----
extract_headline(rs) == RunChain("sel_text", rs).value
extract_location(rs) == RunChain("sel_text", rs).value

\* ---- about ----
\* extract_about: the text inside the "About" section if both are found,
\* whatever it is; otherwise the first non-empty of the other selectors
extract_about(a) ==
    IF a.section.kind = "text" THEN Strip(a.section.text)
    ELSE RunChain("sel_text", a.others).value

\* async: the first content text longer than 5 characters once stripped
RECURSIVE AsyncAbout(_)
AsyncAbout(rs) ==
    IF rs = <<>> THEN [found |-> FALSE, value |-> EmptyText]
    ELSE IF Head(rs).kind = "text" /\ Truthy(Head(rs).text)
            /\ CharLen(Strip(Head(rs).text)) > 5
         THEN [found |-> TRUE, value |-> Strip(Head(rs).text)]
         ELSE AsyncAbout(Tail(rs))

\* extract_about without the try around the section lookup: a missing section
\* throws NoSuchElementException out of the extractor
AboutThrowsUncaught(v, a) == v = "selenium" /\ a.section.kind # "text"

\* whether the about block throws into scrape_profile: every lookup of it sits
\* in a try (Selenium, sync) or under a bare except (async)
AboutThrows(v, a) == FALSE

AboutField(v, pd, a) ==
    CASE v = "selenium" -> PutIf(pd, "introduction", extract_about(a))
      [] v = "async" ->
            IF AsyncAbout(<<a.section>> \o a.others).found
              THEN Put(pd, "introduction", AsyncAbout(<<a.section>> \o a.others).value)
              ELSE pd
      [] OTHER -> SyncField(pd, "introduction", <<a.section>>)

\* ---- experience ----
\* item.find_element(...).text.strip() inside try/except
SelItemText(rs) == IF First(rs).kind = "text" THEN Strip(First(rs).text) ELSE EmptyText

SelJob(item) ==
    [title |-> SelItemText(item.title),
     company |-> SelItemText(item.company),
     dates |-> SelItemText(item.dates)]

\* "if title or company"
SelKeep(job) == Truthy(job.title) \/ Truthy(job.company)

\* the cap of the item loop as a slice that keeps one item too many
CapSliceOffByOne(items) ==
    SubSeq(items, 1, IF Len(items) < ExperienceCap + 1 THEN Len(items) ELSE ExperienceCap + 1)

\* the items the loop processes: "if i >= 5: break", "items[:5]"
CapSlice(items) ==
    SubSeq(items, 1, IF Len(items) < ExperienceCap THEN Len(items) ELSE ExperienceCap)

RECURSIVE SelJobs(_)
SelJobs(items) ==
    IF items = <<>> THEN <<>>
    ELSE (IF SelKeep(SelJob(Head(items))) THEN <<SelJob(Head(items))>> ELSE <<>>)
         \o SelJobs(Tail(items))

\* extract_experience: [] unless the section and its list items are found
extract_experience(e) ==
    IF e.section = "found" /\ e.listing = "ok"
      THEN SelJobs(CapSlice(e.items))
      ELSE <<>>

\* async exp_data: company and title keys, each present only if its loop stopped
AsyncExpData(item) ==
    AsyncChainField(AsyncChainField(EmptyDict, "company", item.company),
                    "title", item.title)

RECURSIVE AsyncJobs(_)
AsyncJobs(items) ==
    IF items = <<>> THEN <<>>
    ELSE (IF Has(AsyncExpData(Head(items)), "company") \/ Has(AsyncExpData(Head(items)), "title")
            THEN <<AsyncExpData(Head(items))>> ELSE <<>>)
         \o AsyncJobs(Tail(items))

\* async experience block: experiences and, from its first entry, current_company
AsyncExperienceField(pd, e) ==
    IF e.section = "found" /\ e.listing = "ok" /\ AsyncJobs(CapSlice(e.items)) # <<>>
      THEN Put(Put(pd, "experiences", AsyncJobs(CapSlice(e.items))),
               "current_company",
               [name |-> Get(AsyncJobs(CapSlice(e.items))[1], "company"),
                title |-> Get(AsyncJobs(CapSlice(e.items))[1], "title")])
      ELSE pd

\* ---- current company ----
\* the value extract_current_company returns; none |-> TRUE stands for None
NoCompany == [none |-> TRUE, name |-> EmptyText, title |-> EmptyText]
Company(n, t) == [none |-> FALSE, name |-> n, title |-> t]

\* extract_current_company preferring a headline of the form "<title> at
\* <company>" over the first experience
extract_current_company_from_headline(exps, direct, headline) ==
    IF First(headline).kind = "text" /\ Len(First(headline).text) = 3
         /\ First(headline).text[2] = "at"
      THEN Company(<<First(headline).text[3]>>, <<First(headline).text[1]>>)
      ELSE IF exps # <<>> THEN Company(exps[1].company, exps[1].title)
      ELSE NoCompany

\* extract_current_company taking the last entry of the list
extract_current_company_last(exps, direct, headline) ==
    IF exps # <<>>
      THEN Company(exps[Len(exps)].company, exps[Len(exps)].title)
      ELSE IF direct.kind = "text"
             THEN Company(Strip(direct.text), get_text_safely(First(headline)))
             ELSE NoCompany

\* extract_current_company: the first experience, else the direct lookup with
\* the title taken from 'div.text-body-medium' (the first headline selector)
extract_current_company(exps, direct, headline) ==
    IF exps # <<>>
      THEN Company(exps[1].company, exps[1].title)
      ELSE IF direct.kind = "text"
             THEN Company(Strip(direct.text), get_text_safely(First(headline)))
             ELSE NoCompany

\* sync: company and title of the first <li> of the experience section
SyncCompanyField(pd, e) ==
    IF e.section = "found" /\ e.listing = "ok" /\ e.items # <<>>
         /\ First(e.items[1].company).kind # "raise"
         /\ First(e.items[1].title).kind # "raise"
      THEN Put(pd, "current_company",
               [name |-> SelItemText(e.items[1].company),
                title |-> SelItemText(e.items[1].title)])
      ELSE pd

\* ---- education ----
\* tokens that contain one of degree_keywords, lower-cased
DegreeKeywordTokens == {"BSc", "PhD", "Engineering"}
\* tokens that contain one of the listed years, or are the separator
DateTokens == {"2020", "Jan 2022", "-"}
\* tokens that contain "degree", lower-cased
DegreeLabelTokens == {"Degree"}

HasToken(t, S) == \E i \in 1..Len(t) : t[i] \in S

\* school of a Selenium education item: the first heading element, else the
\* alt text of a logo when that is longer than 3 characters
SelSchool(item) ==
    LET h == IF First(item.school).kind = "text"
               THEN Put(EmptyDict, "school", Strip(First(item.school).text))
               ELSE EmptyDict
    IN IF Has(h, "school") /\ Truthy(h["school"]) THEN h
       ELSE IF item.alt.kind = "text" /\ CharLen(item.alt.text) > 3
              THEN Put(h, "school", item.alt.text)
              ELSE h

RECURSIVE FirstWith(_, _)
FirstWith(ts, S) ==
    IF ts = <<>> THEN [found |-> FALSE, value |-> EmptyText]
    ELSE IF HasToken(Strip(Head(ts).text), S)
         THEN [found |-> TRUE, value |-> Strip(Head(ts).text)]
         ELSE FirstWith(Tail(ts), S)

RECURSIVE FirstWithout(_, _)
FirstWithout(ts, S) ==
    IF ts = <<>> THEN [found |-> FALSE, value |-> EmptyText]
    ELSE IF ~HasToken(Strip(Head(ts).text), S)
         THEN [found |-> TRUE, value |-> Strip(Head(ts).text)]
         ELSE FirstWithout(Tail(ts), S)

\* degree of a Selenium education item: the first secondary text with a degree
\* keyword, else the first one that does not look like a date
SelDegree(d, item) ==
    IF ~Has(d, "school") \/ (\E i \in 1..Len(item.degree) : item.degree[i].kind # "text")
      THEN d
      ELSE IF FirstWith(item.degree, DegreeKeywordTokens).found
             THEN Put(d, "degree", FirstWith(item.degree, DegreeKeywordTokens).value)
             ELSE IF FirstWithout(item.degree, DateTokens).found
                    THEN Put(d, "degree", FirstWithout(item.degree, DateTokens).value)
                    ELSE d

SelDates(d, item) ==
    IF item.dates.kind = "text" /\ HasToken(Strip(item.dates.text), DateTokens)
      THEN Put(d, "dates", Strip(item.dates.text))
      ELSE d

SelEduEntry(item) == SelDates(SelDegree(SelSchool(item), item), item)

RECURSIVE SelEducation(_)
SelEducation(items) ==
    IF items = <<>> THEN <<>>
    ELSE (IF CharLen(Strip(Head(items).text)) >= 15
               /\ Has(SelEduEntry(Head(items)), "school")
               /\ Truthy(SelEduEntry(Head(items))["school"])
            THEN <<SelEduEntry(Head(items))>> ELSE <<>>)
         \o SelEducation(Tail(items))

extract_education(e) ==
    IF e.section = "found" /\ e.listing = "ok" THEN SelEducation(e.items) ELSE <<>>

\* async degree loop: "if degree and 'degree' not in degree.lower()"
RECURSIVE AsyncDegree(_)
AsyncDegree(rs) ==
    IF rs = <<>> THEN [found |-> FALSE, value |-> EmptyText]
    ELSE IF Head(rs).kind = "text" /\ Truthy(Head(rs).text)
            /\ ~HasToken(Head(rs).text, DegreeLabelTokens)
         THEN [found |-> TRUE, value |-> Strip(Head(rs).text)]
         ELSE AsyncDegree(Tail(rs))

AsyncEduData(item) ==
    LET d == AsyncChainField(EmptyDict, "school", item.school)
    IN IF AsyncDegree(item.degree).found
         THEN Put(d, "degree", AsyncDegree(item.degree).value) ELSE d

RECURSIVE AsyncEducation(_)
AsyncEducation(items) ==
    IF items = <<>> THEN <<>>
    ELSE (IF Has(AsyncEduData(Head(items)), "school")
            THEN <<AsyncEduData(Head(items))>> ELSE <<>>)
         \o AsyncEducation(Tail(items))

\* sync: an entry for every <li> that has a '.t-bold' element
RECURSIVE SyncEducation(_)
SyncEducation(items) ==
    IF items = <<>> THEN <<>>
    ELSE (IF First(Head(items).school).kind = "text"
               /\ First(Head(items).degree).kind # "raise"
            THEN <<[school |-> Strip(First(Head(items).school).text),
                    degree |-> SelItemText(Head(items).degree)]>>
            ELSE <<>>)
         \o SyncEducation(Tail(items))

EducationField(v, pd, e) ==
    LET l == IF e.section = "found" /\ e.listing = "ok"
               THEN CASE v = "selenium" -> SelEducation(e.items)
                      [] v = "async" -> AsyncEducation(e.items)
                      [] OTHER -> SyncEducation(e.items)
               ELSE <<>>
    IN PutIf(pd, "education", l)

\* ---- skills ----
ToSet(q) == {q[i] : i \in 1..Len(q)}

\* tokens that contain "skill", lower-cased
SkillLabelTokens == {"Skills", "skill"}

\* "if skill_text and skill_text not in skills: skills.append(skill_text)"
RECURSIVE AddUnique(_, _)
AddUnique(acc, ts) ==
    IF ts = <<>> THEN acc
    ELSE AddUnique(IF Truthy(Strip(Head(ts))) /\ Strip(Head(ts)) \notin ToSet(acc)
                     THEN Append(acc, Strip(Head(ts))) ELSE acc,
                   Tail(ts))

\* "for selector in skill_selectors": the first selector that gives any skill
RECURSIVE SelCollect(_)
SelCollect(lists) ==
    IF lists = <<>> THEN <<>>
    ELSE IF AddUnique(<<>>, Head(lists)) # <<>> THEN AddUnique(<<>>, Head(lists))
    ELSE SelCollect(Tail(lists))

\* what the page shows of its skills, expanded or not
SkillsView(sk, isExpanded) == IF isExpanded THEN sk.expanded ELSE sk.collapsed

\* the page after the click on "Show all skills"
AfterClick(sk, isExpanded) == isExpanded \/ sk.button \in {"works", "stays"}

\* extract_skills without the expansion: the skills are read off the page as
\* it is before the click
extract_skills_before_click(sk, isExpanded) ==
    IF sk.section = "raise" THEN <<>>
    ELSE IF sk.section = "found" /\ SelCollect(SkillsView(sk, isExpanded)) # <<>>
           THEN SelCollect(SkillsView(sk, isExpanded))
           ELSE sk.source

\* extract_skills: click "Show all skills", read the skill elements of the
\* section, else scan the page source for the common skills
extract_skills(sk, isExpanded) ==
    IF sk.section = "raise" THEN <<>>
    ELSE IF sk.section = "found" /\ SelCollect(SkillsView(sk, AfterClick(sk, isExpanded))) # <<>>
           THEN SelCollect(SkillsView(sk, AfterClick(sk, isExpanded)))
           ELSE sk.source

\* sync: "if skill_text and 'skill' not in skill_text.lower()"
RECURSIVE SyncCollect(_)
SyncCollect(ts) ==
    IF ts = <<>> THEN {}
    ELSE (IF Truthy(Strip(Head(ts))) /\ ~HasToken(Strip(Head(ts)), SkillLabelTokens)
            THEN {Strip(Head(ts))} ELSE {})
         \cup SyncCollect(Tail(ts))

\* sync skills block: the on-page section only; with no skill found there the
\* block reads the unbound name profile_url and its except clause ends it
SyncSkills(sk, isExpanded) ==
    IF sk.section = "found" THEN SyncCollect(First(SkillsView(sk, isExpanded))) ELSE {}

\* the skills of one run of the extractor, as a set
SkillsOf(v, sk, isExpanded) ==
    CASE v = "selenium" -> ToSet(extract_skills(sk, isExpanded))
      [] v = "sync" -> SyncSkills(sk, isExpanded)
      [] OTHER -> {}

SkillsField(v, pd, sk, isExpanded) ==
    CASE v = "selenium" -> PutIf(pd, "skills", extract_skills(sk, isExpanded))
      [] v = "sync" -> IF SyncSkills(sk, isExpanded) # {}
                         THEN Put(pd, "skills", SyncSkills(sk, isExpanded)) ELSE pd
      [] OTHER -> pd

(***************************************************************************)
(* The scrape pass: pages                                                  *)
(***************************************************************************)
\* experience list items: title and company found, title only, neither
ItemKinds == {"full", "title", "blank"}

\* the i-th list item of the experience section
ExpItem(i, kind, dates) ==
    [title |-> IF kind = "blank" THEN <<Found(<<WS>>)>> ELSE <<Found(<<WS, "T" \o ToString(i)>>)>>,
     company |-> IF kind = "full" THEN <<Found(<<"C" \o ToString(i)>>)>> ELSE <<NoMatch>>,
     dates |-> <<dates>>]

OngoingDates == Found(<<"Jan 2022", "-", "Present">>)
ClosedDates == Found(<<"2018", "-", "2020">>)
DatesSet == {OngoingDates, ClosedDates, Found(<<"2020">>), NoMatch}

ExpSection(items) == [section |-> "found", listing |-> "ok", items |-> items]
NoExpSection == [section |-> "none", listing |-> "ok", items |-> <<>>]

EduItem(school) ==
    [text |-> <<"Massachusetts Institute">>,
     school |-> <<school>>,
     alt |-> NoMatch,
     degree |-> <<Found(<<"BSc">>)>>,
     dates |-> Found(<<"2018", "-", "2020">>)]

BaseEdu == [section |-> "found", listing |-> "ok", items |-> <<EduItem(Found(<<"MIT">>))>>]
NoEdu == [section |-> "none", listing |-> "ok", items |-> <<>>]

BaseSkills ==
    [button |-> "works", section |-> "found",
     collapsed |-> <<<<>>, <<<<"Python">>, <<WS, "SQL">>>>>>,
     expanded |-> <<<<>>, <<<<"Python">>, <<WS, "SQL">>, <<"Docker">>, <<"Python">>>>>>,
     source |-> <<>>]

SkillsSet ==
    {[button |-> b, section |-> sec, collapsed |-> c, expanded |-> c \o e, source |-> src] :
        b \in {"none", "works", "fails", "stays"},
        sec \in {"found", "none", "raise"},
        c \in {<<<<>>>>, <<<<<<"Python">>, <<WS, "SQL">>>>>>, <<<<<<"Skills">>, <<"Go">>, <<"Go">>>>>>,
                <<<<<<"Soft", "Skills">>, <<"Go">>>>>>},
        e \in {<<<<>>>>, <<<<<<"Docker">>, <<"Python">>>>>>},
        src \in {<<>>, <<<<"java">>, <<"aws">>>>}}

BaseName == [strats |-> <<Found(<<"Ann">>)>>, fallback |-> NoMatch, h1s |-> NoH1]
NameSet ==
    {BaseName,
     [strats |-> <<Found(<<>>), Found(<<"Bob">>)>>, fallback |-> NoMatch,
      h1s |-> [kind |-> "list", texts |-> <<<<>>, <<"Dee">>>>]],
     [strats |-> <<NoMatch>>, fallback |-> NoMatch, h1s |-> NoH1]}

HeadlineAtAcme == <<Found(<<"Engineer", "at", "Acme">>)>>
HeadlineSet == {HeadlineAtAcme, <<Found(<<"Engineer">>)>>, <<NoMatch>>}

LocationSet == {<<Found(<<"Paris">>)>>, <<NoMatch, Found(<<WS>>)>>}

BaseAbout == [section |-> Found(<<"Builds things">>), others |-> <<NoMatch>>]
\* no about locator matches anything
AbsentAbout == [section |-> NoMatch, others |-> <<NoMatch>>]
AboutSet ==
    {BaseAbout, AbsentAbout,
     [section |-> NoMatch, others |-> <<NoMatch, Found(<<"Hi">>)>>],
     [section |-> Found(<<>>), others |-> <<Found(<<"Builds things">>)>>]}

SmallExpSet ==
    {NoExpSection} \cup {ExpSection(<<>>)}
    \cup {ExpSection(<<ExpItem(1, k, d)>>) : k \in {"full", "title"}, d \in DatesSet}
    \cup {ExpSection(<<ExpItem(1, "blank", ClosedDates), ExpItem(2, "full", OngoingDates)>>),
          ExpSection(<<ExpItem(1, "full", OngoingDates), ExpItem(2, "full", ClosedDates)>>),
          ExpSection(<<ExpItem(1, "full", ClosedDates), ExpItem(2, "title", OngoingDates)>>)}

DirectSet == {NoMatch, Found(<<"Initech">>)}

BasePage ==
    [name |-> BaseName,
     headline |-> HeadlineAtAcme,
     location |-> <<Found(<<"Paris">>)>>,
     about |-> BaseAbout,
     exp |-> ExpSection(<<ExpItem(1, "full", OngoingDates)>>),
     edu |-> BaseEdu,
     skills |-> BaseSkills,
     direct |-> NoMatch]

\* pages that vary every field a little
FieldPages ==
    [name : NameSet, headline : HeadlineSet, location : LocationSet,
     about : AboutSet, exp : SmallExpSet, edu : {BaseEdu, NoEdu},
     skills : {BaseSkills}, direct : DirectSet]

\* all sequences of at most n item kinds
RECURSIVE KindSeqs(_)
KindSeqs(n) ==
    IF n = 0 THEN {<<>>}
    ELSE KindSeqs(n - 1) \cup {Append(q, k) : q \in {x \in KindSeqs(n - 1) : Len(x) = n - 1}, k \in ItemKinds}

\* pages that vary the experience section: up to MaxExpItems items
ExperiencePages ==
    {[BasePage EXCEPT !.exp = ExpSection([i \in 1..Len(q) |-> ExpItem(i, q[i], ClosedDates)])] :
        q \in KindSeqs(MaxExpItems)}

\* pages that vary the skills section
SkillsPages == {[BasePage EXCEPT !.skills = sk] : sk \in SkillsSet}

\* most list items of the education section
MaxEduItems == 2

\* education list items: the school heading has text, only white space, or is
\* missing; the whole item has a long or a short text
EduItemSet ==
    {[EduItem(sc) EXCEPT !.text = t] :
        sc \in {Found(<<"MIT">>), Found(<<WS>>), NoMatch},
        t \in {<<"Massachusetts Institute">>, <<"MIT">>}}

RECURSIVE EduLists(_)
EduLists(n) ==
    IF n = 0 THEN {<<>>}
    ELSE EduLists(n - 1)
         \cup {Append(q, it) : q \in {x \in EduLists(n - 1) : Len(x) = n - 1}, it \in EduItemSet}

\* pages that vary the education section: up to MaxEduItems items
EducationPages ==
    {[BasePage EXCEPT !.edu = [section |-> "found", listing |-> "ok", items |-> l]] :
        l \in EduLists(MaxEduItems)}

Fields == {"name", "headline", "location", "about", "experience", "education", "skills", "company"}

\* the page on which every lookup of the extractors in F throws
Break(pg, F) ==
    [name |-> IF "name" \in F
                THEN [strats |-> <<Raise>>, fallback |-> Raise,
                      h1s |-> [kind |-> "raise", texts |-> <<>>]]
                ELSE pg.name,
     headline |-> IF "headline" \in F THEN <<Raise>> ELSE pg.headline,
     location |-> IF "location" \in F THEN <<Raise>> ELSE pg.location,
     about |-> IF "about" \in F THEN [section |-> Raise, others |-> <<Raise>>] ELSE pg.about,
     exp |-> IF "experience" \in F THEN [pg.exp EXCEPT !.section = "raise"] ELSE pg.exp,
     edu |-> IF "education" \in F THEN [pg.edu EXCEPT !.section = "raise"] ELSE pg.edu,
     skills |-> IF "skills" \in F
                  THEN [pg.skills EXCEPT !.section = "raise", !.button = "fails"]
                  ELSE pg.skills,
     direct |-> IF "company" \in F THEN Raise ELSE pg.direct]

BrokenPages == {Break(BasePage, F) : F \in SUBSET Fields}

\* the calls outside the field extractors that can throw: navigation, the
\* scroll / mouse actions, the debug file writes, the screenshots
FaultPoints == {"nav", "human", "write", "screenshot"}

(***************************************************************************)
(* The scrape pass: scrape_profile() step by step                          *)
(***************************************************************************)
\* the steps of one pass, in the order each variant runs them
SeleniumOrder == <<"nav", "human", "name", "dump", "headline", "location", "about",
                   "experience", "education", "skills", "current_company", "save", "return">>
AsyncOrder == <<"nav", "human", "name", "headline", "location", "about",
                "experience", "education", "skills", "goback", "return">>
\* the sync pass with the current company block moved behind the skills block
SyncOrderCompanyLast == <<"nav", "human", "name", "headline", "location", "about",
                          "education", "skills", "current_company", "return">>

SyncOrder == <<"nav", "human", "name", "headline", "location", "about",
               "current_company", "education", "skills", "return">>

Order(v) ==
    CASE v = "selenium" -> SeleniumOrder
      [] v = "async" -> AsyncOrder
      [] OTHER -> SyncOrder

InOrder(v, step) == \E i \in 1..Len(Order(v)) : Order(v)[i] = step

\* the step that follows step in the pass of variant v
After(v, step) ==
    LET i == CHOOSE j \in 1..Len(Order(v)) : Order(v)[j] = step
    IN IF i = Len(Order(v)) THEN "done" ELSE Order(v)[i + 1]

\* a screenshot is attempted and fails: the Playwright variants take
\* screenshots only when headless, the Selenium variant always
ScreenshotFails == "screenshot" \in faults /\ (variant = "selenium" \/ headless)

UrlText == <<"url">>
IdText == <<"id">>

\* a step that only moves on or throws into the except clause of scrape_profile
Move(step, throws) ==
    /\ pc = step
    /\ InOrder(variant, step)
    /\ steps' = Append(steps, step)
    /\ pc' = IF throws THEN "handler" ELSE After(variant, step)

\* a step that runs one extractor, which never throws
Extract(step, pd) ==
    /\ Move(step, FALSE)
    /\ profile_data' = pd
    /\ UNCHANGED <<variant, headless, requestVars, rateVars, loginVars, chainVars, page, faults, result, skillRuns>>

\* driver.get / page.goto and the first screenshot
Navigate ==
    /\ Move("nav", "nav" \in faults \/ ScreenshotFails)
    /\ profile_data' =
         IF variant = "selenium" /\ pc' # "handler"
           THEN Put(Put(EmptyDict, "profile_url", UrlText), "profile_id", IdText)
           ELSE profile_data
    /\ UNCHANGED <<variant, headless, requestVars, rateVars, loginVars, chainVars, page, faults, expanded,
                   experiences, result, skillRuns>>

\* _perform_human_behavior / the scroll loop of the Selenium scrape_profile,
\* which ends with a screenshot
HumanBehavior ==
    /\ Move("human", "human" \in faults \/ (variant = "selenium" /\ ScreenshotFails))
    /\ UNCHANGED <<variant, headless, requestVars, rateVars, loginVars, chainVars, page, faults, expanded,
                   profile_data, experiences, result, skillRuns>>

\* the name; the async _extract_profile_data starts with a screenshot outside
\* any try, the <main> fallback of extract_name takes one inside its try
ExtractName ==
    /\ Move("name", variant = "async" /\ ScreenshotFails)
    /\ profile_data' =
         CASE variant = "selenium" ->
                SelNameField(profile_data,
                             IF ScreenshotFails THEN [page.name EXCEPT !.fallback = Raise]
                             ELSE page.name)
           [] variant = "async" ->
                IF ScreenshotFails THEN profile_data
                ELSE AsyncChainField(profile_data, "name", page.name.strats)
           [] OTHER -> SyncField(profile_data, "name", page.name.strats)
    /\ UNCHANGED <<variant, headless, requestVars, rateVars, loginVars, chainVars, page, faults, expanded,
                   experiences, result, skillRuns>>

\* open("screenshots/full_page_source.html", "w") and the write
DumpSource ==
    /\ Move("dump", "write" \in faults)
    /\ UNCHANGED <<variant, headless, requestVars, rateVars, loginVars, chainVars, page, faults, expanded,
                   profile_data, experiences, result, skillRuns>>

ExtractHeadline ==
    /\ Extract("headline",
               CASE variant = "selenium" -> PutIf(profile_data, "title", extract_headline(page.headline))
                 [] variant = "async" -> AsyncChainField(profile_data, "title", page.headline)
                 [] OTHER -> SyncField(profile_data, "title", page.headline))
    /\ UNCHANGED <<expanded, experiences>>

ExtractLocation ==
    /\ Extract("location",
               CASE variant = "selenium" -> PutIf(profile_data, "location", extract_location(page.location))
                 [] variant = "async" -> AsyncChainField(profile_data, "location", page.location)
                 [] OTHER -> SyncField(profile_data, "location", page.location))
    /\ UNCHANGED <<expanded, experiences>>

ExtractAbout ==
    /\ Move("about", AboutThrows(variant, page.about))
    /\ profile_data' = IF AboutThrows(variant, page.about) THEN profile_data
                       ELSE AboutField(variant, profile_data, page.about)
    /\ UNCHANGED <<variant, headless, requestVars, rateVars, loginVars, chainVars, page, faults, expanded,
                   experiences, result, skillRuns>>

\* Selenium: extract_experience; async: the experience block, which also sets
\* current_company
ExtractExperience ==
    /\ Extract("experience",
               IF variant = "selenium"
                 THEN PutIf(profile_data, "experience", extract_experience(page.exp))
                 ELSE AsyncExperienceField(profile_data, page.exp))
    /\ experiences' = IF variant = "selenium" THEN extract_experience(page.exp) ELSE experiences
    /\ UNCHANGED expanded

\* the education block; extract_education takes a screenshot inside its try
ExtractEducation ==
    /\ Extract("education",
               IF variant = "selenium" /\ ScreenshotFails /\ page.edu.section = "found"
                 THEN profile_data
                 ELSE EducationField(variant, profile_data, page.edu))
    /\ UNCHANGED <<expanded, experiences>>

\* the skills block; the Selenium extractor clicks "Show all skills" first
ExtractSkills ==
    /\ Extract("skills", SkillsField(variant, profile_data, page.skills, expanded))
    /\ expanded' = IF variant = "selenium" THEN AfterClick(page.skills, expanded) ELSE expanded
    /\ UNCHANGED experiences

\* Selenium: extract_current_company(experiences); sync: the current company block
CurrentCompany ==
    /\ Extract("current_company",
               IF variant = "selenium"
                 THEN IF extract_current_company(experiences, page.direct, page.headline).none
                        THEN profile_data
                        ELSE Put(profile_data, "current_company",
                                 [name |-> extract_current_company(experiences, page.direct, page.headline).name,
                                  title |-> extract_current_company(experiences, page.direct, page.headline).title])
                 ELSE SyncCompanyField(profile_data, page.exp))
    /\ UNCHANGED <<expanded, experiences>>

\* open("screenshots/profile_data.json", "w") and json.dump
SaveJson ==
    /\ Move("save", "write" \in faults)
    /\ UNCHANGED <<variant, headless, requestVars, rateVars, loginVars, chainVars, page, faults, expanded,
                   profile_data, experiences, result, skillRuns>>

\* async _extract_profile_data line 621: page.goto(profile_url), where
\* profile_url is not a name of that function: NameError, outside any try
GoBack ==
    /\ Move("goback", TRUE)
    /\ UNCHANGED <<variant, headless, requestVars, rateVars, loginVars, chainVars, page, faults, expanded,
                   profile_data, experiences, result, skillRuns>>

\* "return profile_data"
Return ==
    /\ Move("return", FALSE)
    /\ result' = "record"
    /\ profile_data' =
         CASE variant = "selenium" -> profile_data
           [] variant = "async" -> Put(profile_data, "profile_url", UrlText)
           [] OTHER -> Put(Put(profile_data, "profile_url", UrlText), "profile_id", IdText)
    /\ UNCHANGED <<variant, headless, requestVars, rateVars, loginVars, chainVars, page, faults, expanded,
                   experiences, skillRuns>>

\* the except clause of scrape_profile: a screenshot, then "raise e"
\* (Playwright variants) or the error dict (Selenium)
Handler ==
    /\ pc = "handler"
    /\ pc' = "done"
    /\ steps' = Append(steps, "handler")
    /\ result' = IF variant = "selenium" /\ ~ScreenshotFails THEN "error_dict" ELSE "raised"
    /\ profile_data' =
         IF variant = "selenium" /\ ~ScreenshotFails
           THEN Put(Put(Put(EmptyDict, "error", <<"error">>), "profile_url", UrlText),
                    "profile_id", IdText)
           ELSE profile_data
    /\ UNCHANGED <<variant, headless, requestVars, rateVars, loginVars, chainVars, page, faults, expanded,
                   experiences, skillRuns>>

ScrapeNext ==
    \/ Navigate
    \/ HumanBehavior
    \/ ExtractName
    \/ DumpSource
    \/ ExtractHeadline
    \/ ExtractLocation
    \/ ExtractAbout
    \/ ExtractExperience
    \/ ExtractEducation
    \/ ExtractSkills
    \/ CurrentCompany
    \/ SaveJson
    \/ GoBack
    \/ Return
    \/ Handler

\* number of runs of the skills extractor against one page
SkillRuns == 2

\* one run of the skills extractor on its own
RunSkillsExtractor ==
    /\ pc = "skills_only"
    /\ Len(skillRuns) < SkillRuns
    /\ skillRuns' = Append(skillRuns, SkillsOf(variant, page.skills, expanded))
    /\ expanded' = IF variant = "selenium" THEN AfterClick(page.skills, expanded) ELSE expanded
    /\ UNCHANGED <<variant, headless, requestVars, rateVars, loginVars, chainVars, page, faults, pc,
                   profile_data, experiences, result, steps>>

SkillsNext == RunSkillsExtractor

(***************************************************************************)
(* The expansion loop of the async skills block                            *)
(***************************************************************************)
\* what the page answers to the lookup of a "Show more" / "See more" button:
\* the call throws, there is no such button, or it is there and visible.  A
\* button that "works" is gone once clicked, one that "stays" is still there
\* and visible after every click.
MoreButton(sk, isExpanded) ==
    CASE sk.button = "fails" -> "raise"
      [] sk.button = "none" -> "absent"
      [] sk.button = "works" -> IF isExpanded THEN "absent" ELSE "visible"
      [] OTHER -> "visible"

\* "for selector in show_more_selectors": the position after the while loop
\* of one selector
AfterSelector(p) == IF p \in {"look_1", "click_1"} THEN "look_2" ELSE "done"

\* one evaluation of "show_more.count() > 0 and show_more.is_visible()": the
\* loop goes on to the click, or it breaks (else branch, or except clause)
ExpandLook ==
    /\ pc \in {"look_1", "look_2"}
    /\ pc' = IF MoreButton(page.skills, expanded) = "visible"
               THEN (IF pc = "look_1" THEN "click_1" ELSE "click_2")
               ELSE AfterSelector(pc)
    /\ UNCHANGED <<variant, headless, requestVars, rateVars, loginVars, chainVars, page, faults,
                   expanded, profile_data, experiences, result, steps, skillRuns>>

\* "show_more.click()" and the delay, then the next turn of "while True"
ExpandClick ==
    /\ pc \in {"click_1", "click_2"}
    /\ expanded' = TRUE
    /\ pc' = IF pc = "click_1" THEN "look_1" ELSE "look_2"
    /\ UNCHANGED <<variant, headless, requestVars, rateVars, loginVars, chainVars, page, faults,
                   profile_data, experiences, result, steps, skillRuns>>

ExpandNext == ExpandLook \/ ExpandClick

IdleScrape ==
    /\ page = BasePage
    /\ faults = {}
    /\ expanded = FALSE
    /\ pc = "idle"
    /\ profile_data = EmptyDict
    /\ experiences = <<>>
    /\ result = "none"
    /\ steps = <<>>
    /\ skillRuns = <<>>

(***************************************************************************)
(* login()                                                                 *)
(***************************************************************************)
\* number of entries of success_selectors
NumSuccessSelectors == 4
\* number of entries of security_indicators
NumSecurityIndicators == 7

\* largest number of landmark selectors / challenge indicators present at once
MaxSignals == 1

\* URL fragments the code tests for with "in"
UrlFragments == {"/login", "feed", "mynetwork", "checkpoint", "security"}
\* the URLs reached after submission, each as the set of fragments it contains
Urls == {{}, {"/login"}, {"feed"}, {"mynetwork"}, {"checkpoint"}, {"security"},
         {"/login", "checkpoint"}}

SmallSubsets(S) == {X \in SUBSET S : Cardinality(X) <= MaxSignals}

LoginPages ==
    [landmarks : SmallSubsets(1..NumSuccessSelectors),
     challenges : SmallSubsets(1..NumSecurityIndicators),
     wrongpw : BOOLEAN,
     url : Urls,
     submitFails : BOOLEAN]

LoginOutcomes == {"Authenticated", "Rejected", "ChallengeRequired", "Error"}

\* the order in which login() runs its checks, per variant
FirstCheck(v) == IF v = "selenium" THEN "url" ELSE "landmark"

\* goto / fill / click / wait_for_load_state; a failure is re-raised (async,
\* sync) or turned into False (selenium)
LoginSubmit ==
    /\ lpc = "start"
    /\ IF lpage.submitFails
         THEN /\ loginResult' = IF variant = "selenium" THEN "Rejected" ELSE "Error"
              /\ lpc' = "done"
              /\ lidx' = lidx
         ELSE /\ lpc' = FirstCheck(variant)
              /\ lidx' = 1
              /\ loginResult' = loginResult
    /\ UNCHANGED <<variant, headless, requestVars, rateVars, lpage, checks, chainVars, scrapeVars>>

\* one iteration of "for selector in success_selectors"
CheckLandmark ==
    /\ lpc = "landmark"
    /\ variant \in {"async", "sync"}
    /\ lidx <= NumSuccessSelectors
    /\ checks' = Append(checks, "landmark")
    /\ IF lidx \in lpage.landmarks
         THEN /\ loginResult' = "Authenticated"
              /\ lpc' = "done"
              /\ lidx' = lidx
         ELSE /\ loginResult' = loginResult
              /\ IF lidx < NumSuccessSelectors
                   THEN lpc' = lpc /\ lidx' = lidx + 1
                   ELSE /\ lpc' = IF variant = "async" THEN "security" ELSE "url"
                        /\ lidx' = 1
    /\ UNCHANGED <<variant, headless, requestVars, rateVars, lpage, chainVars, scrapeVars>>

\* one iteration of "for indicator in security_indicators" (async only)
CheckSecurity ==
    /\ lpc = "security"
    /\ variant = "async"
    /\ lidx <= NumSecurityIndicators
    /\ checks' = Append(checks, "challenge")
    /\ IF lidx \in lpage.challenges
         THEN /\ loginResult' = "ChallengeRequired"
              /\ lpc' = "done"
              /\ lidx' = lidx
         ELSE /\ loginResult' = loginResult
              /\ IF lidx < NumSecurityIndicators
                   THEN lpc' = lpc /\ lidx' = lidx + 1
                   ELSE lpc' = "wrongpw" /\ lidx' = 1
    /\ UNCHANGED <<variant, headless, requestVars, rateVars, lpage, chainVars, scrapeVars>>

\* the incorrect-password locator (async only)
CheckWrongPassword ==
    /\ lpc = "wrongpw"
    /\ variant = "async"
    /\ checks' = Append(checks, "wrongpw")
    /\ IF lpage.wrongpw
         THEN loginResult' = "Rejected" /\ lpc' = "done"
         ELSE loginResult' = loginResult /\ lpc' = "url"
    /\ UNCHANGED <<variant, headless, requestVars, rateVars, lpage, lidx, chainVars, scrapeVars>>

\* fragments of the URL that make the async variant report success
AsyncUrlOk(u) == "feed" \in u \/ "mynetwork" \in u \/ "checkpoint" \in u
\* fragments of the URL that make the sync variant report success
SyncUrlOk(u) == "feed" \in u \/ "mynetwork" \in u

\* the URL heuristic of the Playwright variants
CheckUrl ==
    /\ lpc = "url"
    /\ variant \in {"async", "sync"}
    /\ checks' = Append(checks, "url")
    /\ loginResult' = IF (variant = "async" /\ AsyncUrlOk(lpage.url))
                         \/ (variant = "sync" /\ SyncUrlOk(lpage.url))
                      THEN "Authenticated" ELSE "Rejected"
    /\ lpc' = "done"
    /\ UNCHANGED <<variant, headless, requestVars, rateVars, lpage, lidx, chainVars, scrapeVars>>

IsCheckpoint(u) == "checkpoint" \in u \/ "security" \in u

\* the URL checks of the Selenium variant; u2 is the URL read again after the
\* 30 second wait that a non-headless run gives to manual verification
SeleniumCheckUrl ==
    /\ lpc = "url"
    /\ variant = "selenium"
    /\ checks' = Append(checks, "url")
    /\ \E u2 \in Urls :
         loginResult' =
            IF "/login" \in lpage.url THEN "Rejected"
            ELSE IF IsCheckpoint(lpage.url)
                 THEN IF ~headless /\ ~IsCheckpoint(u2) THEN "Authenticated" ELSE "Rejected"
                 ELSE "Authenticated"
    /\ lpc' = "done"
    /\ UNCHANGED <<variant, headless, requestVars, rateVars, lpage, lidx, chainVars, scrapeVars>>

LoginNext ==
    \/ LoginSubmit
    \/ CheckLandmark
    \/ CheckSecurity
    \/ CheckWrongPassword
    \/ CheckUrl
    \/ SeleniumCheckUrl

(***************************************************************************)
(* The scraper object: __init__, initialize(), close()                     *)
(***************************************************************************)
\* most close() calls made on one scraper object
MaxCloses == 3

\* the attribute self.playwright: the async class sets it only in
\* initialize(), the sync class sets it to None in __init__
NoPlaywright(v) == IF v = "async" THEN "unset" ELSE "none"

\* the object after __init__: no handle, no browser process
NewScraper(v) ==
    [initCalled |-> FALSE, playwright |-> NoPlaywright(v), browser |-> FALSE, open |-> FALSE,
     ready |-> FALSE, evasion |-> FALSE]

\* how far initialize() gets: it raises before the driver / Playwright is
\* started, at the browser launch, at a later statement, or it returns; the
\* Selenium initialize() can also return from its except clause, with a driver
\* started from an alternative chromedriver path
InitOutcomes == {"fail_start", "fail_launch", "fail_late", "ok", "ok_alt"}

\* only the Selenium class has the alternative-path branch
InitOutcomesOf(v) == IF v = "selenium" THEN InitOutcomes ELSE InitOutcomes \ {"ok_alt"}

\* initialize() returned
Returned(o) == o \in {"ok", "ok_alt"}

\* the navigator.webdriver override has been installed when initialize()
\* returns: add_init_script in the Playwright classes, execute_script after
\* the first webdriver.Chrome(...) in the Selenium class; the alternative
\* path returns right after its webdriver.Chrome(...)
EvasionInstalled(o) == o = "ok"

\* the object after initialize() ended as o; self.browser / self.driver is
\* assigned once the launch returned, self.playwright once start() returned
AfterInitialize(v, o) ==
    [initCalled |-> TRUE,
     playwright |-> IF v = "selenium" \/ o = "fail_start" THEN NoPlaywright(v) ELSE "set",
     browser |-> o \in {"fail_late", "ok", "ok_alt"},
     open |-> o \in {"fail_late", "ok", "ok_alt"},
     ready |-> Returned(o),
     evasion |-> EvasionInstalled(o)]

\* close(): the teardown calls it makes on object s, whether it raises, and
\* the object afterwards.  brRaises / pwRaises: browser.close() (driver.quit())
\* and playwright.stop() throw.  Only the Selenium class wraps the call in
\* try/except; no class resets its handles.
Close(v, s, brRaises, pwRaises) ==
    IF v = "selenium"
      THEN [calls |-> IF s.browser THEN <<"driver.quit">> ELSE <<>>,
            raised |-> FALSE,
            after |-> [s EXCEPT !.open = @ /\ brRaises]]
      ELSE IF s.browser /\ brRaises
             THEN [calls |-> <<"browser.close">>, raised |-> TRUE, after |-> s]
             ELSE [calls |-> (IF s.browser THEN <<"browser.close">> ELSE <<>>)
                             \o (IF s.playwright = "set" THEN <<"playwright.stop">> ELSE <<>>),
                   raised |-> s.playwright = "set" /\ pwRaises,
                   after |-> [s EXCEPT !.open = FALSE]]

\* the entry of closeLog for one close() call
CloseEntry(c) == [calls |-> c.calls, raised |-> c.raised]

\* scraper.initialize() called on a fresh object
SessInitialize ==
    /\ rpc = "object"
    /\ ~sess.initCalled
    /\ \E o \in InitOutcomesOf(variant) : sess' = AfterInitialize(variant, o)
    /\ UNCHANGED <<variant, headless, loginVars, chainVars, scrapeVars, closeLog, rateVars, rq,
                   cacheOps, rpc,
                   profile_id, profile_cache, calls, loginState, passResult, bgTasks,
                   response, out>>

\* scraper.close() called in whatever state the object is in
SessClose ==
    /\ rpc = "object"
    /\ Len(closeLog) < MaxCloses
    /\ \E brRaises \in BOOLEAN, pwRaises \in BOOLEAN :
         LET c == Close(variant, sess, brRaises, pwRaises) IN
           /\ sess' = c.after
           /\ closeLog' = Append(closeLog, CloseEntry(c))
    /\ UNCHANGED <<variant, headless, loginVars, chainVars, scrapeVars, rateVars, rq,
                   cacheOps, rpc,
                   profile_id, profile_cache, calls, loginState, passResult, bgTasks,
                   response, out>>

SessionNext == SessInitialize \/ SessClose

(***************************************************************************)
(* The API: request validation, profile_id, credentials                    *)
(***************************************************************************)
\* A URL is the sequence of tokens after "https://"; no token other than
\* "/in/" and "/" holds a slash, so splitting on tokens is splitting the string.
UrlTokens == {"linkedin.com", "/in/", "/", "ann", "?x=1"}

\* longest URL, in tokens
MaxUrlLen == 4

RECURSIVE SeqsUpTo(_, _)
SeqsUpTo(S, n) ==
    IF n = 0 THEN {<<>>}
    ELSE SeqsUpTo(S, n - 1)
         \cup {Append(q, x) : q \in {y \in SeqsUpTo(S, n - 1) : Len(y) = n - 1}, x \in S}

AllUrls == SeqsUpTo(UrlTokens, MaxUrlLen) \ {<<>>}

\* s occurs in t as a contiguous run: Python's "s in t"
Contains(t, s) ==
    \E i \in 0..(Len(t) - Len(s)) : SubSeq(t, i + 1, i + Len(s)) = s

\* validate_linkedin_url: 'linkedin.com/in/' in str(v)
validate_linkedin_url(u) == Contains(u, <<"linkedin.com", "/in/">>)

\* t.split(sep)[-1]: what follows the last occurrence of the token sep
RECURSIVE AfterLast(_, _)
AfterLast(t, sep) ==
    IF t = <<>> THEN <<>>
    ELSE IF t[Len(t)] = sep THEN <<>>
    ELSE Append(AfterLast(SubSeq(t, 1, Len(t) - 1), sep), t[Len(t)])

\* t.split('/')[0]: what precedes the first slash
RECURSIVE BeforeFirstSlash(_)
BeforeFirstSlash(t) ==
    IF t = <<>> \/ Head(t) \in {"/", "/in/"} THEN <<>>
    ELSE <<Head(t)>> \o BeforeFirstSlash(Tail(t))

\* profile_url.split('/in/')[-1].split('/')[0]
ProfileIdOf(u) == BeforeFirstSlash(AfterLast(u, "/in/"))

\* the URLs of the requests of the API model
RequestUrls ==
    {<<"linkedin.com", "/in/", "ann">>, <<"linkedin.com", "/in/">>, <<"linkedin.com", "/", "ann">>}

\* credentials: an identifier and a secret, as sequences of characters
None == <<>>
Emails == {<<"a", "n", "n", "@", "x", ".", "i", "o">>, <<"a", "@", "b">>}
Password == <<"s", "3", "c", "r", "e", "t">>

\* a or b
Or(a, b) == IF a # None THEN a ELSE b

Requests ==
    [url : RequestUrls,
     email : Emails \cup {None},
     password : {None, Password},
     access_token : {None, <<"t", "o", "k">>},
     env_email : Emails \cup {None},
     env_password : {None, Password}]

\* the credentials the handler passes to login(): POST /scrape takes the
\* request's and falls back on the environment, the other two endpoints read
\* the environment only
EmailOf(v, r) == IF v = "async" THEN Or(r.email, r.env_email) ELSE r.env_email
PasswordOf(v, r) == IF v = "async" THEN Or(r.password, r.env_password) ELSE r.env_password

\* email[:n] and email[-n:]
Prefix(t, n) == SubSeq(t, 1, IF Len(t) < n THEN Len(t) ELSE n)
Suffix(t, n) == SubSeq(t, IF Len(t) < n THEN 1 ELSE Len(t) - n + 1, Len(t))

\* f"{email[:3]}***{email[-4:] if email and len(email) > 7 else ''}"
MaskedEmail(e) ==
    Prefix(e, 3) \o <<"*", "*", "*">> \o (IF e # None /\ Len(e) > 7 THEN Suffix(e, 4) ELSE <<>>)

\* logger.info(f"Attempting login for {email}"), first statement of login()
LoginLogLine(e) == <<"Attempting login for ">> \o e

\* print(f"DEBUG: Using LinkedIn email: ...") of POST /selenium-scrape
MaskedLogLine(e) == <<"DEBUG: Using LinkedIn email: ">> \o MaskedEmail(e)

\* the response while the handler has not answered
NoResponse == [status |-> 0, kind |-> "none", raised |-> FALSE]
Response(status, kind, raised) == [status |-> status, kind |-> kind, raised |-> raised]

\* what login() can hand to its caller: True, False or an exception.  The
\* Selenium login turns every exception into False unless the screenshot of
\* its except clause throws too.
LoginReturns == {"true", "false", "raised"}

\* what scrape_profile can hand to its caller, per variant: the async pass
\* always raises (unbound profile_url), the sync pass returns a record or
\* raises, the Selenium pass returns a record or its error dict, or raises
\* when the screenshot of its except clause throws
PassResults(v) ==
    CASE v = "async" -> {"raised"}
      [] v = "sync" -> {"record", "raised"}
      [] OTHER -> {"record", "error_dict", "raised"}

(***************************************************************************)
(* The API: the three scrape endpoints, step by step.  variant names the   *)
(* endpoint too: "async" is POST /scrape, "sync" POST /sync-scrape,        *)
(* "selenium" POST /selenium-scrape.                                       *)
(***************************************************************************)
\* the variables no endpoint step touches
restVars == <<headless, loginVars, chainVars, scrapeVars, rateVars>>

\* pydantic runs validate_linkedin_url before the handler; a ValueError is
\* answered with 422
Validate ==
    /\ rpc = "validate"
    /\ IF validate_linkedin_url(rq.url)
         THEN /\ rpc' = IF variant = "async" THEN "derive" ELSE "init"
              /\ response' = response
         ELSE /\ rpc' = "done"
              /\ response' = Response(422, "validation", TRUE)
    /\ UNCHANGED <<variant, restVars, sessionVars, rq, cacheOps, profile_id, profile_cache, calls,
                   loginState, passResult, bgTasks, out>>

\* POST /scrape: profile_id from the URL, then the cache lookup
DeriveId ==
    /\ rpc = "derive"
    /\ profile_id' = ProfileIdOf(rq.url)
    /\ IF ProfileIdOf(rq.url) \in profile_cache
         THEN /\ response' = Response(200, "cached", FALSE)
              /\ rpc' = "done"
         ELSE /\ response' = response
              /\ rpc' = "auth"
    /\ UNCHANGED <<variant, restVars, sessionVars, rq, cacheOps, profile_cache, calls, loginState,
                   passResult, bgTasks, out>>

\* POST /scrape: "if not ((email and password) or request.access_token)"
AuthCheck ==
    /\ rpc = "auth"
    /\ IF (EmailOf(variant, rq) # None /\ PasswordOf(variant, rq) # None)
          \/ rq.access_token # None
         THEN /\ rpc' = "init"
              /\ response' = response
         ELSE /\ rpc' = "done"
              /\ response' = Response(400, "error", TRUE)
    /\ UNCHANGED <<variant, restVars, sessionVars, rq, cacheOps, profile_id, profile_cache, calls,
                   loginState, passResult, bgTasks, out>>

\* "scraper = ...Scraper()" and "scraper.initialize()" inside the try
Initialize ==
    /\ rpc = "init"
    /\ \E o \in InitOutcomesOf(variant) :
         /\ sess' = AfterInitialize(variant, o)
         /\ rpc' = IF ~Returned(o) THEN "except"
                   ELSE IF variant = "async" THEN "login" ELSE "creds"
    /\ calls' = Append(calls, "initialize")
    /\ out' = Append(out, <<"Initializing browser">>)
    /\ UNCHANGED <<variant, restVars, closeLog, rq, cacheOps, profile_id, profile_cache, loginState,
                   passResult, bgTasks, response>>

\* /sync-scrape and /selenium-scrape: credentials from the environment; the
\* Selenium endpoint prints the masked identifier first, and email[:3] is a
\* TypeError when the variable is unset
EnvCreds ==
    /\ rpc = "creds"
    /\ variant \in {"sync", "selenium"}
    /\ out' = IF variant = "selenium" /\ rq.env_email # None
                THEN Append(out, MaskedLogLine(rq.env_email))
                ELSE out
    /\ rpc' = IF rq.env_email = None \/ rq.env_password = None THEN "except" ELSE "login"
    /\ UNCHANGED <<variant, restVars, sessionVars, rq, cacheOps, profile_id, profile_cache, calls,
                   loginState, passResult, bgTasks, response>>

\* scraper.login(email, password) and the test of its result; POST /scrape
\* calls it only "if email and password"
Login ==
    /\ rpc = "login"
    /\ IF variant = "async"
          /\ ~(EmailOf(variant, rq) # None /\ PasswordOf(variant, rq) # None)
         THEN /\ rpc' = "scrape"
              /\ UNCHANGED <<calls, loginState, out>>
         ELSE \E r \in LoginReturns :
                /\ loginState' = r
                /\ calls' = Append(calls, "login")
                /\ out' = Append(out, LoginLogLine(EmailOf(variant, rq)))
                /\ rpc' = IF r = "true" THEN "scrape" ELSE "except"
    /\ UNCHANGED <<variant, restVars, sessionVars, rq, cacheOps, profile_id, profile_cache,
                   passResult, bgTasks, response>>

\* scraper.scrape_profile(profile_url)
Scrape ==
    /\ rpc = "scrape"
    /\ \E r \in PassResults(variant) :
         /\ passResult' = r
         /\ rpc' = IF r = "raised" THEN "except" ELSE "respond"
    /\ calls' = Append(calls, "scrape_profile")
    /\ UNCHANGED <<variant, restVars, sessionVars, rq, cacheOps, profile_id, profile_cache,
                   loginState, bgTasks, response, out>>

\* the end of the try block: POST /scrape caches the response and queues
\* close as a background task; the other two call close() and return the
\* dict scrape_profile gave them
Respond ==
    /\ rpc = "respond"
    /\ IF variant = "async"
         THEN /\ profile_cache' = profile_cache \cup {profile_id}
              /\ bgTasks' = Append(bgTasks, "close")
              /\ response' = Response(200, passResult, FALSE)
              /\ rpc' = "deliver"
              /\ UNCHANGED <<sessionVars, calls>>
         ELSE /\ \E brRaises \in BOOLEAN, pwRaises \in BOOLEAN :
                   LET c == Close(variant, sess, brRaises, pwRaises) IN
                     /\ sess' = c.after
                     /\ closeLog' = Append(closeLog, CloseEntry(c))
                     /\ rpc' = IF c.raised THEN "except" ELSE "deliver"
                     /\ response' = IF c.raised THEN response
                                    ELSE Response(200, passResult, FALSE)
              /\ calls' = Append(calls, "close")
              /\ UNCHANGED <<profile_cache, bgTasks>>
    /\ UNCHANGED <<variant, restVars, rq, cacheOps, profile_id, loginState, passResult, out>>

\* "except Exception": POST /scrape queues close as a background task and
\* raises HTTPException(500); the other two call close() inside try/except
\* and raise HTTPException(500)
Except ==
    /\ rpc = "except"
    /\ response' = Response(500, "error", TRUE)
    /\ rpc' = "deliver"
    /\ IF variant = "async"
         THEN /\ bgTasks' = Append(bgTasks, "close")
              /\ UNCHANGED <<sessionVars, calls>>
         ELSE /\ \E brRaises \in BOOLEAN, pwRaises \in BOOLEAN :
                   LET c == Close(variant, sess, brRaises, pwRaises) IN
                     /\ sess' = c.after
                     /\ closeLog' = Append(closeLog, CloseEntry(c))
              /\ calls' = Append(calls, "close")
              /\ UNCHANGED bgTasks
    /\ UNCHANGED <<variant, restVars, rq, cacheOps, profile_id, profile_cache, loginState,
                   passResult, out>>

\* the framework sends the response.  The BackgroundTasks object is attached
\* to the response built from the handler's return value; the response built
\* for a raised HTTPException carries no tasks, so the queued ones never run.
Deliver ==
    /\ rpc = "deliver"
    /\ rpc' = "done"
    /\ bgTasks' = <<>>
    /\ IF ~response.raised /\ bgTasks # <<>>
         THEN \E brRaises \in BOOLEAN, pwRaises \in BOOLEAN :
                LET c == Close(variant, sess, brRaises, pwRaises) IN
                  /\ sess' = c.after
                  /\ closeLog' = Append(closeLog, CloseEntry(c))
         ELSE UNCHANGED sessionVars
    /\ UNCHANGED <<variant, restVars, rq, cacheOps, profile_id, profile_cache, calls, loginState,
                   passResult, response, out>>

\* ---- the cache endpoints ----
\* profile ids the cache can hold and the clear-cache endpoint can be given
CacheIds == {<<"ann">>, <<"bob">>}

\* most calls of the clear-cache endpoints during one request
MaxCacheOps == 1

\* a clear-cache that drops every entry
clear_cache_drops_all(cache, id) == IF id \in cache THEN {} ELSE cache

\* POST /clear-cache/{profile_id}:
\* "if profile_id in profile_cache: del profile_cache[profile_id]"
clear_cache(cache, id) == IF id \in cache THEN cache \ {id} ELSE cache

\* POST /clear-all-cache: "profile_cache.clear()"
clear_all_cache(cache) == {}

\* the handlers of the cache endpoints have no await: each runs as one step,
\* before, between or after the steps of a scrape request
ClearCache ==
    /\ Len(cacheOps) < MaxCacheOps
    /\ \E id \in CacheIds :
         /\ profile_cache' = clear_cache(profile_cache, id)
         /\ cacheOps' = Append(cacheOps, [op |-> "clear", id |-> id])
    /\ UNCHANGED <<variant, restVars, sessionVars, rq, rpc, profile_id, calls, loginState,
                   passResult, bgTasks, response, out>>

ClearAllCache ==
    /\ Len(cacheOps) < MaxCacheOps
    /\ profile_cache' = clear_all_cache(profile_cache)
    /\ cacheOps' = Append(cacheOps, [op |-> "clear_all", id |-> None])
    /\ UNCHANGED <<variant, restVars, sessionVars, rq, rpc, profile_id, calls, loginState,
                   passResult, bgTasks, response, out>>

RequestNext ==
    \/ Validate
    \/ DeriveId
    \/ AuthCheck
    \/ Initialize
    \/ EnvCreds
    \/ Login
    \/ Scrape
    \/ Respond
    \/ Except
    \/ Deliver

\* the derivation of profile_id on its own
CacheNext == RequestNext \/ ClearCache \/ ClearAllCache

ProfileIdNext == Validate \/ DeriveId

IdleRequest ==
    /\ sess = NewScraper(variant)
    /\ closeLog = <<>>
    /\ rq = [url |-> <<"linkedin.com", "/in/", "ann">>, email |-> None, password |-> None,
             access_token |-> None, env_email |-> None, env_password |-> None]
    /\ rpc = "idle"
    /\ profile_id = None
    /\ profile_cache = {}
    /\ calls = <<>>
    /\ loginState = "not_called"
    /\ passResult = "none"
    /\ bgTasks = <<>>
    /\ response = NoResponse
    /\ out = <<>>
    /\ cacheOps = <<>>

(***************************************************************************)
(* utils.rate_limit_check(cache, key, min_interval_seconds)                *)
(***************************************************************************)
\* keys the callers pass
RateKeys == {"k1", "k2"}
\* values of min_interval_seconds the callers pass
MinIntervals == {0, 2, 3}
\* last value of the clock
MaxClock == 5
\* most calls of rate_limit_check in one run
MaxRateCalls == 3

EmptyRateCache == [k \in {} |-> 0]

\* "last_time = cache.get(key, 0)"
LastTime(cache, key) == IF key \in DOMAIN cache THEN cache[key] ELSE 0

\* the test with the operands the other way round
LimitedWhenLate(now, last, min) == now - last > min

\* "if current_time - last_time < min_interval_seconds"
Limited(now, last, min) == now - last < min

\* the value returned and the cache afterwards: a limited call returns before
\* "cache[key] = current_time"
rate_limit_check(cache, key, now, min) ==
    IF Limited(now, LastTime(cache, key), min)
      THEN [limited |-> TRUE, cache |-> cache]
      ELSE [limited |-> FALSE,
            cache |-> [k \in (DOMAIN cache) \cup {key} |-> IF k = key THEN now ELSE cache[k]]]

idleVars == <<variant, headless, loginVars, chainVars, scrapeVars, requestVars>>

\* one call of rate_limit_check at the current time
RateCall ==
    /\ Len(rateLog) < MaxRateCalls
    /\ \E key \in RateKeys, min \in MinIntervals :
         LET r == rate_limit_check(rate_cache, key, clock, min) IN
           /\ rate_cache' = r.cache
           /\ rateLog' = Append(rateLog, [key |-> key, time |-> clock, min |-> min,
                                          limited |-> r.limited, before |-> rate_cache])
    /\ UNCHANGED <<clock, idleVars>>

\* time passes between two calls
Tick ==
    /\ clock < MaxClock
    /\ clock' = clock + 1
    /\ UNCHANGED <<rate_cache, rateLog, idleVars>>

RateNext == RateCall \/ Tick

IdleRate ==
    /\ rate_cache = EmptyRateCache
    /\ clock = 0
    /\ rateLog = <<>>

IdleLogin ==
    /\ lpage = [landmarks |-> {}, challenges |-> {}, wrongpw |-> FALSE,
                url |-> {}, submitFails |-> FALSE]
    /\ lpc = "idle"
    /\ lidx = 1
    /\ loginResult = "none"
    /\ checks = <<>>

IdleChain ==
    /\ ckind = "none"
    /\ cresps = [strats |-> <<>>, fallback |-> NoMatch, h1s |-> NoH1]
    /\ cidx = 1
    /\ cvalue = <<>>
    /\ cpc = "idle"
    /\ lookups = <<>>

LoginInit ==
    /\ IdleRate
    /\ variant \in Variants
    /\ headless \in BOOLEAN
    /\ lpage \in LoginPages
    /\ lpc = "start"
    /\ lidx = 1
    /\ loginResult = "none"
    /\ checks = <<>>
    /\ IdleChain
    /\ IdleScrape
    /\ IdleRequest

SpecLogin == LoginInit /\ [][LoginNext]_vars

ChainInit ==
    /\ IdleRate
    /\ variant \in Variants
    /\ headless = TRUE
    /\ IdleLogin
    /\ ckind \in ChainKinds
    /\ \E st \in [1..ChainLen -> Responses], fb \in Responses, h \in H1Answers :
         /\ ckind # "sel_name" => (fb = NoMatch /\ h = NoH1)
         /\ cresps = [strats |-> st, fallback |-> fb, h1s |-> h]
    /\ (ckind = "async") = (variant = "async")
    /\ variant # "sync"
    /\ cidx = 1
    /\ cvalue = EmptyText
    /\ cpc = "chain"
    /\ lookups = <<>>
    /\ IdleScrape
    /\ IdleRequest

SpecChain == ChainInit /\ [][ChainNext]_vars

ScrapeInit ==
    /\ IdleRate
    /\ variant \in Variants
    /\ \/ /\ page \in FieldPages \cup ExperiencePages \cup SkillsPages \cup EducationPages
          /\ faults = {}
          /\ headless = TRUE
       \/ /\ page \in BrokenPages
          /\ faults \in SUBSET FaultPoints
          /\ headless \in BOOLEAN
    /\ IdleLogin
    /\ IdleChain
    /\ expanded = FALSE
    /\ pc = "nav"
    /\ profile_data = EmptyDict
    /\ experiences = <<>>
    /\ result = "none"
    /\ steps = <<>>
    /\ skillRuns = <<>>
    /\ IdleRequest

SpecScrape == ScrapeInit /\ [][ScrapeNext]_vars

SkillsInit ==
    /\ IdleRate
    /\ variant \in Variants
    /\ headless = TRUE
    /\ page \in SkillsPages
    /\ faults = {}
    /\ IdleLogin
    /\ IdleChain
    /\ expanded = FALSE
    /\ pc = "skills_only"
    /\ profile_data = EmptyDict
    /\ experiences = <<>>
    /\ result = "none"
    /\ steps = <<>>
    /\ skillRuns = <<>>
    /\ IdleRequest

SpecSkills == SkillsInit /\ [][SkillsNext]_vars

\* the async skills block at its expansion loop, on any skills page
ExpandInit ==
    /\ IdleRate
    /\ variant = "async"
    /\ headless = TRUE
    /\ page \in SkillsPages
    /\ faults = {}
    /\ IdleLogin
    /\ IdleChain
    /\ expanded = FALSE
    /\ pc = "look_1"
    /\ profile_data = EmptyDict
    /\ experiences = <<>>
    /\ result = "none"
    /\ steps = <<>>
    /\ skillRuns = <<>>
    /\ IdleRequest

\* the single worker of a pass keeps running: a step that can be taken is
\* taken
SpecExpand == ExpandInit /\ [][ExpandNext]_vars /\ WF_vars(ExpandNext)

SessionInit ==
    /\ IdleRate
    /\ variant \in Variants
    /\ headless = TRUE
    /\ IdleLogin
    /\ IdleChain
    /\ IdleScrape
    /\ sess = NewScraper(variant)
    /\ closeLog = <<>>
    /\ rq = [url |-> <<"linkedin.com", "/in/", "ann">>, email |-> None, password |-> None,
             access_token |-> None, env_email |-> None, env_password |-> None]
    /\ rpc = "object"
    /\ profile_id = None
    /\ profile_cache = {}
    /\ calls = <<>>
    /\ loginState = "not_called"
    /\ passResult = "none"
    /\ bgTasks = <<>>
    /\ response = NoResponse
    /\ out = <<>>
    /\ cacheOps = <<>>

SpecSession == SessionInit /\ [][SessionNext]_vars

RequestInit ==
    /\ IdleRate
    /\ variant \in Variants
    /\ headless = TRUE
    /\ IdleLogin
    /\ IdleChain
    /\ IdleScrape
    /\ sess = NewScraper(variant)
    /\ closeLog = <<>>
    /\ rq \in Requests
    /\ rpc = "validate"
    /\ profile_id = None
    /\ profile_cache \in {{}, {<<"ann">>}}
    /\ calls = <<>>
    /\ loginState = "not_called"
    /\ passResult = "none"
    /\ bgTasks = <<>>
    /\ response = NoResponse
    /\ out = <<>>
    /\ cacheOps = <<>>

SpecRequest == RequestInit /\ [][RequestNext]_vars

ProfileIdInit ==
    /\ IdleRate
    /\ variant = "async"
    /\ headless = TRUE
    /\ IdleLogin
    /\ IdleChain
    /\ IdleScrape
    /\ sess = NewScraper(variant)
    /\ closeLog = <<>>
    /\ \E u \in AllUrls :
         rq = [url |-> u, email |-> None, password |-> None, access_token |-> None,
               env_email |-> None, env_password |-> None]
    /\ rpc = "validate"
    /\ profile_id = None
    /\ profile_cache = {}
    /\ calls = <<>>
    /\ loginState = "not_called"
    /\ passResult = "none"
    /\ bgTasks = <<>>
    /\ response = NoResponse
    /\ out = <<>>
    /\ cacheOps = <<>>

SpecProfileId == ProfileIdInit /\ [][ProfileIdNext]_vars

\* requests for the profile "ann", with and without credentials
CacheRequests ==
    {r \in Requests : /\ r.url = <<"linkedin.com", "/in/", "ann">>
                      /\ r.access_token = None
                      /\ r.email \in {None, r.env_email}}

CacheInit ==
    /\ IdleRate
    /\ variant \in Variants
    /\ headless = TRUE
    /\ IdleLogin
    /\ IdleChain
    /\ IdleScrape
    /\ sess = NewScraper(variant)
    /\ closeLog = <<>>
    /\ rq \in CacheRequests
    /\ rpc = "validate"
    /\ profile_id = None
    /\ profile_cache \in SUBSET CacheIds
    /\ calls = <<>>
    /\ loginState = "not_called"
    /\ passResult = "none"
    /\ bgTasks = <<>>
    /\ response = NoResponse
    /\ out = <<>>
    /\ cacheOps = <<>>

SpecCache == CacheInit /\ [][CacheNext]_vars

RateInit ==
    /\ variant = "async"
    /\ headless = TRUE
    /\ IdleLogin
    /\ IdleChain
    /\ IdleScrape
    /\ IdleRequest
    /\ rate_cache = EmptyRateCache
    /\ clock \in 0..1
    /\ rateLog = <<>>

SpecRateLimit == RateInit /\ [][RateNext]_vars

(***************************************************************************)
(* Claims about login()                                                    *)
(***************************************************************************)
LoginRan == lpc = "done" /\ ~lpage.submitFails

\* C1: whenever a challenge signal is present on the page reached after
\* submission, the async login reports ChallengeRequired, also when a
\* post-login landmark selector is present on the same page.
C1_ChallengeWins ==
    (LoginRan /\ variant = "async" /\ lpage.challenges # {})
        => loginResult = "ChallengeRequired"

\* C2: whenever the incorrect-password signal is present and no challenge
\* signal is, the async login reports Rejected.
C2_WrongPasswordRejected ==
    (LoginRan /\ variant = "async" /\ lpage.wrongpw /\ lpage.challenges = {})
        => loginResult = "Rejected"

(***************************************************************************)
(* Claims about the strategy chains                                        *)
(***************************************************************************)
\* strategy answer r yields non-empty text
Yields(r) == r.kind = "text" /\ Truthy(Strip(r.text))

RECURSIVE FirstYield(_)
FirstYield(rs) ==
    IF rs = <<>> THEN EmptyText
    ELSE IF Yields(Head(rs)) THEN Strip(Head(rs).text)
    ELSE FirstYield(Tail(rs))

\* C4: the value extracted by a Selenium chain, extract_name included, is the
\* trimmed text of the lowest-index strategy that yields non-empty text; a
\* strategy matching an element with empty text does not end the chain.
C4_FirstNonEmptyWins ==
    (cpc = "done" /\ ckind \in {"sel_text", "sel_name"}
        /\ Truthy(FirstYield(cresps.strats)))
        => cvalue = FirstYield(cresps.strats)

(***************************************************************************)
(* Claims about the scrape pass                                            *)
(***************************************************************************)
Ran(step) == \E i \in 1..Len(steps) : steps[i] = step

\* the experience list of the dict, [] when the key is absent
ExpOut ==
    IF Has(profile_data, "experience") THEN profile_data["experience"]
    ELSE IF Has(profile_data, "experiences") THEN profile_data["experiences"]
    ELSE <<>>

\* trimmed text of the element a lookup found, "" if it found none
TrimmedText(rs) == IF First(rs).kind = "text" THEN Strip(First(rs).text) ELSE EmptyText

\* every list item of the experience section has a title or a company
AllItemsHaveText ==
    /\ page.exp.section = "found"
    /\ page.exp.listing = "ok"
    /\ \A i \in 1..Len(page.exp.items) :
          Truthy(TrimmedText(page.exp.items[i].title))
          \/ Truthy(TrimmedText(page.exp.items[i].company))

MinOf(a, b) == IF a < b THEN a ELSE b

\* C5: when each of the n list items of the experience section has a title or
\* a company, the experience list has min(n, 5) entries and entry i carries
\* the title and company of item i (Selenium and async variants).
C5_ExperienceCap ==
    (Ran("experience") /\ result # "error_dict" /\ AllItemsHaveText)
        => /\ Len(ExpOut) = MinOf(Len(page.exp.items), 5)
           /\ \A i \in 1..Len(ExpOut) :
                 /\ Get(ExpOut[i], "title") = TrimmedText(page.exp.items[i].title)
                 /\ Get(ExpOut[i], "company") = TrimmedText(page.exp.items[i].company)

\* a returned Selenium record cut down to five entries from a longer section
C5_Witness ==
    /\ variant = "selenium"
    /\ result = "record"
    /\ AllItemsHaveText
    /\ Len(page.exp.items) > 5
    /\ Len(ExpOut) = 5

\* no about locator matches anything on the page
AboutAbsent ==
    /\ page.about.section.kind = "none"
    /\ \A i \in 1..Len(page.about.others) : page.about.others[i].kind = "none"

\* the record a pass of variant v builds on page pg when nothing throws
ReferenceRecord(v, pg) ==
    IF v = "selenium"
      THEN LET d1 == SelNameField(Put(Put(EmptyDict, "profile_url", UrlText), "profile_id", IdText), pg.name)
               d2 == PutIf(d1, "title", extract_headline(pg.headline))
               d3 == PutIf(d2, "location", extract_location(pg.location))
               d4 == AboutField(v, d3, pg.about)
               d5 == PutIf(d4, "experience", extract_experience(pg.exp))
               d6 == EducationField(v, d5, pg.edu)
               d7 == SkillsField(v, d6, pg.skills, FALSE)
               cc == extract_current_company(extract_experience(pg.exp), pg.direct, pg.headline)
           IN IF cc.none THEN d7
              ELSE Put(d7, "current_company", [name |-> cc.name, title |-> cc.title])
      ELSE LET d1 == SyncField(EmptyDict, "name", pg.name.strats)
               d2 == SyncField(d1, "title", pg.headline)
               d3 == SyncField(d2, "location", pg.location)
               d4 == AboutField(v, d3, pg.about)
               d5 == SyncCompanyField(d4, pg.exp)
               d6 == EducationField(v, d5, pg.edu)
               d7 == SkillsField(v, d6, pg.skills, FALSE)
           IN Put(Put(d7, "profile_url", UrlText), "profile_id", IdText)

\* two dicts agree on every key but the about key
SameButAbout(d, e) ==
    /\ (DOMAIN d) \ {"introduction"} = (DOMAIN e) \ {"introduction"}
    /\ \A k \in (DOMAIN d) \ {"introduction"} : d[k] = e[k]

\* C6: when the about section is absent, the Selenium (and sync) pass still
\* returns a record, without an about entry, whose other fields are those of
\* the pass over the same page with the about section present.
C6_AboutAbsent ==
    (pc = "done" /\ variant \in {"selenium", "sync"} /\ faults = {} /\ AboutAbsent)
        => /\ result = "record"
           /\ ~Has(profile_data, "introduction")
           /\ SameButAbout(profile_data,
                           ReferenceRecord(variant, [page EXCEPT !.about = BaseAbout]))

\* a returned Selenium record without about but with name, title and experience
C6_Witness ==
    /\ pc = "done"
    /\ variant = "selenium"
    /\ result = "record"
    /\ AboutAbsent
    /\ ~Has(profile_data, "introduction")
    /\ Has(profile_data, "name")
    /\ Has(profile_data, "title")
    /\ Has(profile_data, "experience")
    /\ Has(ReferenceRecord(variant, [page EXCEPT !.about = BaseAbout]), "introduction")

\* C7: once navigation has succeeded and nothing but field extractions fails,
\* scrape_profile of every variant returns a record and does not raise.
C7_FailSoft ==
    (pc = "done" /\ faults = {}) => result = "record"

\* the dates text signals an ongoing position: a present marker, or no
\* range separator
IsOngoing(d) == HasToken(d, {"Present"}) \/ ~HasToken(d, {"-"})

CompanyOfFirst ==
    [name |-> Get(ExpOut[1], "company"), title |-> Get(ExpOut[1], "title")]

\* C8: when the first experience entry's dates signal an ongoing position,
\* current_company is the company and title of that entry.
C8_OngoingFirstExperience ==
    ((pc = "done" \/ Ran("current_company") \/ (variant = "async" /\ Ran("experience")))
        /\ result # "error_dict" /\ variant # "sync"
        /\ ExpOut # <<>> /\ IsOngoing(Get(ExpOut[1], "dates")))
        => /\ Has(profile_data, "current_company")
           /\ profile_data["current_company"] = CompanyOfFirst

\* a returned Selenium record with two entries, the first of them ongoing
C8_Witness ==
    /\ variant = "selenium"
    /\ result = "record"
    /\ Len(ExpOut) = 2
    /\ HasToken(ExpOut[1].dates, {"Present"})
    /\ ExpOut[1].company # ExpOut[2].company
    /\ profile_data["current_company"] = CompanyOfFirst

\* the headline has the form "<title> at <company>"
HeadlineHasAt ==
    /\ Has(profile_data, "title")
    /\ Len(profile_data["title"]) = 3
    /\ profile_data["title"][2] = "at"

ClosedFirstAndHeadline ==
    /\ pc = "done"
    /\ variant = "selenium"
    /\ result = "record"
    /\ ExpOut # <<>>
    /\ ~IsOngoing(ExpOut[1].dates)
    /\ HeadlineHasAt

C10_SkillsIdempotent ==
    \A i, j \in 1..Len(skillRuns) : skillRuns[i] = skillRuns[j]

\* two Selenium runs, the first of which expanded the section and so found
\* more than the collapsed section shows
C10_Witness ==
    /\ variant = "selenium"
    /\ Len(skillRuns) = 2
    /\ page.skills.button = "works"
    /\ expanded
    /\ skillRuns[1] # {}
    /\ skillRuns[1] # ToSet(SelCollect(page.skills.collapsed))

(***************************************************************************)
(* Claims about the API and the scraper object                             *)
(***************************************************************************)
\* C11: the caller receives a record or an error, never both: a response
\* delivered as a success (200) comes from a pass that returned a record (or
\* from the cache), and no response body holds the error dict of a failed pass.
C11_RecordOrError ==
    response.kind # "none"
        => /\ response.status = 200 => (passResult = "record" \/ response.kind = "cached")
           /\ response.kind # "error_dict"

\* C12: no close() call raises, and every close() after the first one makes
\* no teardown call on the browser, the driver or Playwright.
C12_CloseIdempotent ==
    \A i \in 1..Len(closeLog) :
        /\ ~closeLog[i].raised
        /\ i > 1 => closeLog[i].calls = <<>>

\* C13: when a request has ended, a scraper whose initialize() was called has
\* had its close() executed.
C13_SessionClosed ==
    (rpc = "done" /\ sess.initCalled) => Len(closeLog) >= 1

\* C14: scrape_profile is invoked only after login returned success on the
\* same scraper.
C14_LoginBeforeScrape ==
    (\E i \in 1..Len(calls) : calls[i] = "scrape_profile") => loginState = "true"

\* C15: POST /scrape answers a login that returned false with status 401.
C15_Rejected401 ==
    (variant = "async" /\ rpc = "done" /\ loginState = "false") => response.status = 401

\* C16: every login call ends in Authenticated, Rejected or ChallengeRequired,
\* and a login that detected a challenge (checkpoint URL in the Selenium
\* variant) ends in ChallengeRequired, never in Rejected and never, after a
\* wait, in Authenticated.
C16_TriState ==
    lpc = "done"
        => /\ loginResult \in {"Authenticated", "Rejected", "ChallengeRequired"}
           /\ (variant = "selenium" /\ ~lpage.submitFails /\ "/login" \notin lpage.url
               /\ IsCheckpoint(lpage.url))
                 => loginResult = "ChallengeRequired"

\* C17: no emitted log line or printed line holds the identifier or the secret
\* passed to login() in cleartext.
C17_NoCleartextCredentials ==
    \A i \in 1..Len(out) :
        /\ EmailOf(variant, rq) # None => ~Contains(out[i], EmailOf(variant, rq))
        /\ PasswordOf(variant, rq) # None => ~Contains(out[i], PasswordOf(variant, rq))

\* the path segment that follows the first "/in/" of a URL
RECURSIVE AfterFirst(_, _)
AfterFirst(t, sep) ==
    IF t = <<>> THEN <<>>
    ELSE IF Head(t) = sep THEN Tail(t)
    ELSE AfterFirst(Tail(t), sep)

SegmentAfterIn(u) ==
    LET rest == AfterFirst(u, "/in/")
    IN IF rest = <<>> \/ Head(rest) \in {"/", "/in/", "?x=1"} THEN <<>> ELSE <<Head(rest)>>

\* C18: for every URL the validator accepts, the derived profile_id is
\* non-empty and is the path segment that follows "/in/".
C18_ProfileIdNonEmpty ==
    (rpc \in {"auth", "done"} /\ validate_linkedin_url(rq.url))
        => /\ profile_id # None
           /\ profile_id = SegmentAfterIn(rq.url)

(***************************************************************************)
(* Claims about the order and the content of the scrape pass               *)
(***************************************************************************)
HasCompany == Has(profile_data, "current_company")

\* C19 as stated: current_company is set only after education and skills have
\* been extracted, in every variant.
C19_CompanyLast == HasCompany => (Ran("education") /\ Ran("skills"))

\* position of a step in the pass, 0 if it has not run
Pos(step) == IF Ran(step) THEN CHOOSE i \in 1..Len(steps) : steps[i] = step ELSE 0

FieldOrder == <<"name", "headline", "location", "about", "experience", "education", "skills">>

\* C19: the field steps run in the order name, headline, location, about,
\* experience, education, skills (the sync pass has no experience step);
\* current_company is set last, after skills, only by the Selenium pass: the
\* async pass sets it inside the experience step and the sync pass in a step
\* of its own between about and education.
C19_OrderPerVariant ==
    /\ \A i \in 1..Len(FieldOrder), j \in 1..Len(FieldOrder) :
          (i < j /\ Ran(FieldOrder[j]))
            => /\ InOrder(variant, FieldOrder[i]) => Ran(FieldOrder[i])
               /\ Ran(FieldOrder[i]) => Pos(FieldOrder[i]) < Pos(FieldOrder[j])
    /\ (variant = "selenium" /\ (HasCompany \/ Ran("current_company"))) => Ran("skills")
    /\ (variant = "async" /\ HasCompany) => Ran("experience")
    /\ (variant = "sync" /\ HasCompany) => (Ran("about") /\ Ran("current_company"))
    /\ (variant = "sync" /\ Ran("education")) => Ran("current_company")

\* a sync pass that has set current_company and has not reached education
C19_Witness ==
    /\ variant = "sync"
    /\ HasCompany
    /\ Ran("about")
    /\ ~Ran("education")
    /\ ~Ran("skills")

EduOut == IF Has(profile_data, "education") THEN profile_data["education"] ELSE <<>>

\* every list item of the education section has a school with text
AllItemsHaveSchool ==
    /\ page.edu.section = "found"
    /\ page.edu.listing = "ok"
    /\ \A i \in 1..Len(page.edu.items) : Truthy(TrimmedText(page.edu.items[i].school))

\* C21: every entry of the education list has a school that is non-empty
\* after trimming, in every variant, and the list is not capped: a section
\* whose n items all have a non-empty school gives n entries.
C21_EducationKeepRule ==
    /\ \A i \in 1..Len(EduOut) :
          Has(EduOut[i], "school") /\ Truthy(Strip(EduOut[i]["school"]))
    /\ (Ran("education") /\ faults = {} /\ AllItemsHaveSchool)
          => Len(EduOut) = Len(page.edu.items)

\* the skills of the dict as a set, empty when the key is absent
SkillsOut ==
    IF ~Has(profile_data, "skills") THEN {}
    ELSE IF variant = "selenium" THEN ToSet(profile_data["skills"])
    ELSE profile_data["skills"]

\* a text that is itself the label "skill" / "skills"
IsSkillLabel(t) == Len(t) = 1 /\ t[1] \in SkillLabelTokens

\* the nodes the first skill selector matches on the page as the pass read it
FirstSelectorNodes == ToSet(Head(SkillsView(page.skills, expanded)))

\* C22: a skills node is dropped exactly when its text is itself the label
\* "skill" / "skills": the bare label is never in the result, and a node whose
\* text contains the word inside a longer name is kept, in every variant.
C22_SkillsLabelFilter ==
    (Ran("skills") /\ variant # "async" /\ faults = {} /\ page.skills.section = "found")
        => /\ \A t \in SkillsOut : ~IsSkillLabel(t)
           /\ \A t \in FirstSelectorNodes :
                 (Truthy(Strip(t)) /\ ~IsSkillLabel(Strip(t))) => Strip(t) \in SkillsOut

\* C23: a failure of a scroll, delay or pointer move of the human-behaviour
\* step does not propagate: the pass returns its record all the same.
C23_HumanBehaviourSwallowed ==
    (pc = "done" /\ variant # "async" /\ faults = {"human"}) => result = "record"

\* C24: a failing screenshot, page-source dump or JSON dump never changes the
\* outcome of the pass, and a failing write inside the error handler does not
\* replace the original error.
C24_DiagnosticsSilent ==
    /\ (pc = "done" /\ variant # "async" /\ faults # {} /\ faults \subseteq {"write", "screenshot"})
          => result = "record"
    /\ (pc = "done" /\ variant = "selenium" /\ "nav" \in faults) => result = "error_dict"

(***************************************************************************)
(* Claims about the session, the cache and the API                         *)
(***************************************************************************)
\* C25: whenever initialize() has returned, by any path, the override of
\* navigator.webdriver has been installed on the session.
C25_EvasionInstalled ==
    sess.ready => sess.evasion

\* the last call of a cache endpoint
LastOp == cacheOps[Len(cacheOps)]

\* C26: profile_cache changes only by a successful POST /scrape, which adds
\* the request's profile_id, by clear-cache, which deletes exactly the named
\* id, and by clear-all-cache, which empties it; every other step (a failing
\* /scrape, a cache hit, /sync-scrape, /selenium-scrape) leaves it unchanged.
C26_CacheFrame ==
    [][/\ (cacheOps' # cacheOps /\ LastOp'.op = "clear")
             => profile_cache' = profile_cache \ {LastOp'.id}
       /\ (cacheOps' # cacheOps /\ LastOp'.op = "clear_all") => profile_cache' = {}
       /\ (cacheOps' = cacheOps /\ profile_cache' # profile_cache)
             => /\ variant = "async"
                /\ rpc = "respond"
                /\ response'.status = 200
                /\ profile_cache' = profile_cache \cup {profile_id}]_vars

\* clear-cache has deleted one id of a cache that held two, and a /scrape
\* request that failed with 500 has left the other one in place
C26_Witness ==
    /\ variant = "async"
    /\ rpc = "done"
    /\ response.status = 500
    /\ cacheOps = <<[op |-> "clear", id |-> <<"ann">>]>>
    /\ profile_cache = {<<"bob">>}

HasAuth ==
    \/ (EmailOf(variant, rq) # None /\ PasswordOf(variant, rq) # None)
    \/ rq.access_token # None

C29_CheckpointNeverTrue ==
    (lpc = "done" /\ "checkpoint" \in lpage.url) => loginResult # "Authenticated"

(***************************************************************************)
(* Claims about rate_limit_check                                           *)
(***************************************************************************)
\* the cache as call i left it
CacheAfter(i) == IF i < Len(rateLog) THEN rateLog[i + 1].before ELSE rate_cache

\* C30: with a clock that never goes back, two calls that return False for
\* the same key are at least min_interval_seconds apart, and a call that
\* returns True leaves the timestamp of every key as it was.
C30_RateSpacing ==
    /\ \A i \in 1..Len(rateLog), j \in 1..Len(rateLog) :
          (i < j /\ ~rateLog[i].limited /\ ~rateLog[j].limited
                 /\ rateLog[i].key = rateLog[j].key)
             => rateLog[j].time - rateLog[i].time >= rateLog[j].min
    /\ \A i \in 1..Len(rateLog) : rateLog[i].limited => CacheAfter(i) = rateLog[i].before

\* a key is admitted, then limited, then admitted again once the interval
\* has passed
C30_Witness ==
    /\ Len(rateLog) = 3
    /\ \A i \in 1..3 : rateLog[i].key = "k1" /\ rateLog[i].min = 2
    /\ ~rateLog[1].limited
    /\ rateLog[2].limited
    /\ ~rateLog[3].limited

====
